---- MODULE Spec2Model ----
(***************************************************************************)
(* Model of the bot-bet navigation engine:                                 *)
(*   - visual_navigator.py : run_flow (scripted navigator), launch_browser,*)
(*     smart_click, safe_find_text, accept_cookies, perform_search,        *)
(*     navigate_match_tabs, verify_market                                  *)
(*   - miner_agent.py      : main, run_miner (hybrid miner), safe_go_to    *)
(*   - miner_agent.py      : two run_miner calls in flight at once (conc)  *)
(*   - setup_db.py         : initialize_database, create_connection,       *)
(*     create_schema (db)                                                  *)
(*   - logic.py            : BetCalculator.is_arbitrage_opportunity (calc) *)
(* One execution runs one of these programs (prog).  Every awaited call of *)
(* the browser library is one step whose outcome (normal return or         *)
(* exception) is chosen nondeterministically.                              *)
(***************************************************************************)
EXTENDS Integers, Sequences, FiniteSets, TLC

\* ------------------------------------------------------------------ bounds
MaxMatches == 2      \* elements one locator may match on the page
MaxUrlLen == 3       \* characters of the line typed at the prompt
MaxPlayers == 2      \* player entries in the record the agent answers with
MaxOdds == 3         \* odds in the list given to is_arbitrage_opportunity

\* --------------------------------------------------------------- constants
SEARCH_QUERY == "Levante"

SELECTORS ==
  [cookies        |-> <<"Aceptar", "Accept", "Allow all", "OK", "Acepto", "Allow", "Aceptar cookies">>,
   search_trigger |-> <<"Buscar", "Search", "Busqueda", "Buscar eventos">>,
   bet_builder    |-> <<"Bet Builder", "Crear Apuesta", "Tiros">>,
   player_section |-> <<"Player", "Jugador">>,
   shots_target   |-> <<"Tiros a puerta", "Shots on Target", "Tiros a porteria">>]

css_triggers == <<"button[aria-label*='Buscar']", ".search-button", "ion-icon[name='search']">>

VARIABLES
  prog,          \* "flow" (visual_navigator.run_flow) or "miner" (miner_agent.main)
  pc,            \* position of the run
  input,         \* raw line read by main (sequence of characters)
  url,           \* main's local url after strip()
  browser,       \* the run's browser variable: "None" or "browser"
  launchLog,     \* chromium.launch attempts in order: <<channel, succeeded>>
  launched,      \* browser processes successfully launched by the run
  closeCalls,    \* number of close() invocations on the browser
  navs,          \* number of page.goto calls
  agentStarted,  \* agent.run() was called
  artifacts,     \* output files written by the run
  runOut,        \* what run_flow / run_miner gave its caller
  mainOut,       \* how main ended
  trigger,       \* perform_search's local 'trigger'
  result,        \* run_miner's local 'result' (the agent's terminal result)
  texts,         \* candidate list of the running resolver call
  resolver,      \* "text" (safe_find_text) or "role" (accept_cookies loop)
  sfIdx,         \* loop index of the resolver
  tried,         \* lookups performed by the resolver call: <<kind, candidate>>
  firstVis,      \* first candidate observed with a visible match (0: none)
  firstVisObs,   \* visibility of that candidate's matches, DOM order
  threw,         \* some lookup of the resolver call raised
  sfOut,         \* element produced by the resolver: <<candidate, match>>
  sfRet,         \* continuation of safe_find_text's caller
  scLabel,       \* label argument of the running smart_click
  scRet,         \* continuation of smart_click's caller
  primary,       \* primary attempt of smart_click: "none" | "ok" | "failed"
  forced,        \* forced click of smart_click:    "none" | "ok" | "failed"
  normalClicks,  \* locator.click() calls of this smart_click
  forcedClicks,  \* locator.click(force=True) calls of this smart_click
  recoveries,    \* recovery blocks entered by this smart_click
  scOut,         \* "pending" | "true" | "false" | "raised"
  steps,         \* steps of the run started so far, and what befell them, in order
  conc,          \* two run_miner calls running concurrently (prog = "conc")
  db,            \* setup_db.initialize_database and its database file (prog = "db")
  odds,          \* argument of BetCalculator.is_arbitrage_opportunity (prog = "calc")
  arb            \* what is_arbitrage_opportunity returned

others  == <<conc, db, odds, arb>>
runVars == <<others, prog, input, url, browser, launchLog, launched, closeCalls, navs,
             agentStarted, artifacts, runOut, mainOut, trigger, result>>
sfVars  == <<texts, resolver, sfIdx, tried, firstVis, firstVisObs, threw, sfOut, sfRet>>
scVars  == <<scLabel, scRet, primary, forced, normalClicks, forcedClicks, recoveries, scOut>>
vars    == <<pc, runVars, sfVars, scVars, steps>>

\* ---------------------------------------------------------------- helpers
None    == <<0, 0>>       \* the resolver's "no element"
Pending == <<-1, -1>>     \* resolver call not finished
Raised  == <<-2, -2>>     \* resolver call left by an exception

Chars == {" ", "u"}
Inputs == UNION {[1..n -> Chars] : n \in 0..MaxUrlLen}

\* What one lookup can observe for a candidate: the lookup throws, or the
\* locator matches Len(vis) elements with the given visibility in DOM order.
VisSeqs == UNION {[1..n -> BOOLEAN] : n \in 0..MaxMatches}
Outcomes == {[throws |-> TRUE, vis |-> <<>>]} \cup {[throws |-> FALSE, vis |-> v] : v \in VisSeqs}

AnyVisible(v) == \E j \in 1..Len(v) : v[j]
FirstVisible(v) == CHOOSE j \in 1..Len(v) : v[j] /\ \A h \in 1..(j-1) : ~v[h]

\* str.strip() on the typed line
RECURSIVE LStrip(_)
LStrip(s) == IF s = <<>> THEN s ELSE IF Head(s) = " " THEN LStrip(Tail(s)) ELSE s
RECURSIVE RStrip(_)
RStrip(s) == IF s = <<>> THEN s
             ELSE IF s[Len(s)] = " " THEN RStrip(SubSeq(s, 1, Len(s) - 1)) ELSE s
StripIdentity(s) == s
Strip(s) == RStrip(LStrip(s))

\* `el.count() > 0 and el.first.is_visible()`
Resolves(o) == ~o.throws /\ Len(o.vis) > 0 /\ o.vis[1]

\* ------------------------------------------------ JSON texts and Python values
\* A text (Python str) is a sequence of tokens.  A Python value is one of
\*   str  (x: its text),  int (x: its digits),  None,  dict (m: <<key, value>>
\*   pairs in insertion order),  list (e: its elements).
JStr(x) == [t |-> "str", x |-> x]
JNum(n) == [t |-> "num", x |-> <<n>>]
JNull == [t |-> "null", x |-> <<>>]
JObj(m) == [t |-> "obj", m |-> m]
JArr(e) == [t |-> "arr", e |-> e]

\* Contents of the string literals that occur in the agent's texts
Words ==
  {"match", "market", "players", "name", "line", "odd", "error",
   "AvsB", "Shots", "X", "Y", "+0.5", "+1.5", "2.50", "3.20", "MarketNotFound"}

NumToks == {"0", "42"}

\* The JSON string literal with content w, and back
Quote(w) == "\"" \o w \o "\""
StrToks == {Quote(w) : w \in Words}
Unquote(tok) == CHOOSE w \in Words : Quote(w) = tok

\* The characters of a text in one string (content of a dumped string literal)
RECURSIVE Join(_)
Join(x) == IF x = <<>> THEN "" ELSE Head(x) \o Join(Tail(x))

\* dict[k] = v: a repeated key keeps its place and takes the later value
Put(m, k, v) ==
  IF \E i \in 1..Len(m) : m[i][1] = k
  THEN LET i == CHOOSE j \in 1..Len(m) : m[j][1] = k IN [m EXCEPT ![i] = <<k, v>>]
  ELSE Append(m, <<k, v>>)

ParseFail == [ok |-> FALSE, val |-> JNull, rest |-> <<>>]
ParseOk(v, r) == [ok |-> TRUE, val |-> v, rest |-> r]

\* Mutant: the decoder builds arrays back to front.
ArrPrepend(acc, v) == <<v>> \o acc
\* list.append while json.loads builds an array
ArrAppend(acc, v) == Append(acc, v)

\* json.loads: the decoder, one JSON value from the front of the tokens
RECURSIVE ParseValue(_), ParseMembers(_, _), ParseElements(_, _)
ParseValue(ts) ==
  IF ts = <<>> THEN ParseFail
  ELSE LET h == Head(ts)
           r == Tail(ts)
       IN CASE h \in StrToks -> ParseOk(JStr(<<Unquote(h)>>), r)
            [] h \in NumToks -> ParseOk(JNum(h), r)
            [] h = "null" -> ParseOk(JNull, r)
            [] h = "{" -> IF r # <<>> /\ Head(r) = "}"
                          THEN ParseOk(JObj(<<>>), Tail(r))
                          ELSE ParseMembers(r, <<>>)
            [] h = "[" -> IF r # <<>> /\ Head(r) = "]"
                          THEN ParseOk(JArr(<<>>), Tail(r))
                          ELSE ParseElements(r, <<>>)
            [] OTHER -> ParseFail

ParseMembers(ts, acc) ==
  IF Len(ts) < 3 THEN ParseFail
  ELSE IF ts[1] \notin StrToks \/ ts[2] # ":" THEN ParseFail
  ELSE LET v == ParseValue(SubSeq(ts, 3, Len(ts))) IN
       IF ~v.ok THEN ParseFail
       ELSE IF v.rest = <<>> THEN ParseFail
       ELSE LET m == Put(acc, Unquote(ts[1]), v.val) IN
            CASE Head(v.rest) = "}" -> ParseOk(JObj(m), Tail(v.rest))
              [] Head(v.rest) = "," -> ParseMembers(Tail(v.rest), m)
              [] OTHER -> ParseFail

ParseElements(ts, acc) ==
  LET v == ParseValue(ts) IN
  IF ~v.ok THEN ParseFail
  ELSE IF v.rest = <<>> THEN ParseFail
  ELSE LET e == ArrAppend(acc, v.val) IN
       CASE Head(v.rest) = "]" -> ParseOk(JArr(e), Tail(v.rest))
         [] Head(v.rest) = "," -> ParseElements(Tail(v.rest), e)
         [] OTHER -> ParseFail

\* json.loads(text): one value and nothing after it, else JSONDecodeError
JsonLoads(ts) ==
  LET p == ParseValue(ts) IN
  IF p.ok /\ p.rest = <<>> THEN [ok |-> TRUE, value |-> p.val]
  ELSE [ok |-> FALSE, value |-> JNull]

\* json.dump(data, f, indent=2, ensure_ascii=False): the text written
RECURSIVE JsonDump(_), DumpMembers(_), DumpElements(_)
JsonDump(v) ==
  CASE v.t = "str" -> <<Quote(Join(v.x))>>
    [] v.t = "num" -> v.x
    [] v.t = "null" -> <<"null">>
    [] v.t = "obj" -> <<"{">> \o DumpMembers(v.m) \o <<"}">>
    [] v.t = "arr" -> <<"[">> \o DumpElements(v.e) \o <<"]">>

DumpMembers(m) ==
  IF m = <<>> THEN <<>>
  ELSE <<Quote(m[1][1]), ":">> \o JsonDump(m[1][2])
       \o (IF Len(m) = 1 THEN <<>> ELSE <<",">> \o DumpMembers(Tail(m)))

DumpElements(e) ==
  IF e = <<>> THEN <<>>
  ELSE JsonDump(e[1]) \o (IF Len(e) = 1 THEN <<>> ELSE <<",">> \o DumpElements(Tail(e)))

\* str(result) for a result that is not a text
PyStr(v) == IF v.t = "null" THEN <<"None">> ELSE JsonDump(v)

\* type(result).__name__
TypeName(v) ==
  CASE v.t = "null" -> "NoneType"
    [] v.t = "obj" -> "dict"
    [] v.t = "arr" -> "list"
    [] v.t = "num" -> "int"
    [] v.t = "str" -> "str"

\* Python truth value, as tested by `if result:`
PyTruthy(v) ==
  CASE v.t = "null" -> FALSE
    [] v.t = "num" -> v.x # <<"0">>
    [] v.t = "str" -> v.x # <<>>
    [] v.t = "obj" -> v.m # <<>>
    [] v.t = "arr" -> v.e # <<>>

\* ------------------------------------------- two concurrent run_miner calls
Runs == {1, 2}

\* Both runs at their first launch.  The browser a run launches is named after
\* the run; port is the browser listening on localhost:9222 (0: nobody).
ConcStart ==
  [pc    |-> [r \in Runs |-> "launch"],
   own   |-> [r \in Runs |-> 0],        \* browser_pw of the run (0: None)
   att   |-> [r \in Runs |-> 0],        \* browser the run's agent is attached to
   cut   |-> [r \in Runs |-> FALSE],    \* the agent's browser was closed by the other run
   out   |-> [r \in Runs |-> "pending"],
   port  |-> 0,
   alive |-> {}]

\* ------------------------------------------------------ setup_db.py schema
\* MATCHES_TABLE_SQL, ODDS_TABLE_SQL, INDEXES_SQL in the order create_schema runs them
SchemaStmts ==
  <<"matches", "odds", "idx_odds_match_bookmaker", "idx_odds_match_extracted">>
SchemaObjects == {SchemaStmts[i] : i \in 1..Len(SchemaStmts)}

\* Database files initialize_database can meet: an index exists only on its table
DbFiles ==
  {f \in SUBSET SchemaObjects :
     (f \cap {"idx_odds_match_bookmaker", "idx_odds_match_extracted"} # {}) => "odds" \in f}

DbStart(f) ==
  [pc |-> "connect", present |-> f, conn |-> "None", idx |-> 1,
   connFailed |-> FALSE, schemaFailed |-> FALSE, committed |-> FALSE, ret |-> "pending"]

\* ------------------------------------------------------ logic.BetCalculator
\* Decimal odds offered to the calculator; probabilities are counted in
\* units of 1/ProbUnit, which every positive odd here divides.
OddValues == {-2, 0, 1, 2, 3, 6}
ProbUnit == 6
OddsLists == UNION {[1..n -> OddValues] : n \in 0..MaxOdds}

\* ------------------------------------------------------------------- Init
Init ==
  /\ prog \in {"flow", "miner", "conc", "db", "calc"}
  /\ conc = ConcStart
  /\ db \in (IF prog = "db" THEN {DbStart(f) : f \in DbFiles} ELSE {DbStart({})})
  /\ odds \in (IF prog = "calc" THEN OddsLists ELSE {<<>>})
  /\ arb = "pending"
  /\ input \in (IF prog = "miner" THEN Inputs ELSE {<<>>})
  /\ pc = CASE prog = "flow" -> "f_launch" [] prog = "miner" -> "m_input" [] OTHER -> "idle"
  /\ url = <<>>
  /\ browser = "None"
  /\ launchLog = <<>>
  /\ launched = 0
  /\ closeCalls = 0
  /\ navs = 0
  /\ agentStarted = FALSE
  /\ artifacts = {}
  /\ runOut = [kind |-> "pending", data |-> JNull]
  /\ mainOut = "pending"
  /\ trigger = None
  /\ result = [str |-> FALSE, text |-> <<>>, py |-> JNull]
  /\ texts = <<>>
  /\ resolver = "text"
  /\ sfIdx = 1
  /\ tried = <<>>
  /\ firstVis = 0
  /\ firstVisObs = <<>>
  /\ threw = FALSE
  /\ sfOut = Pending
  /\ sfRet = "none"
  /\ scLabel = "none"
  /\ scRet = "none"
  /\ primary = "none"
  /\ forced = "none"
  /\ normalClicks = 0
  /\ forcedClicks = 0
  /\ recoveries = 0
  /\ scOut = "pending"
  /\ steps = <<>>

\* ------------------------------------------------------------ smart_click
\* Entry of smart_click(page, locator, label), called with continuation ret.
CallClick(label, ret) ==
  /\ scLabel' = label
  /\ scRet' = ret
  /\ primary' = "none"
  /\ forced' = "none"
  /\ normalClicks' = 0
  /\ forcedClicks' = 0
  /\ recoveries' = 0
  /\ scOut' = "pending"
  /\ pc' = "sc_box"

\* Where an exception leaving smart_click lands, by call site.
ScRaiseTarget(ret) ==
  CASE ret = "ck_ret"         -> "ck_except"     \* accept_cookies: except: pass
    [] ret = "ps_clicked"     -> "f_except"      \* perform_search, outside its try
    [] ret = "ps_res_clicked" -> "ps_except"     \* perform_search, inside its try
    [] ret = "nt_bb_clicked"  -> "f_except"      \* navigate_match_tabs
    [] ret = "nt_ps_clicked"  -> "f_except"
    [] OTHER                  -> "f_except"

\* box = await locator.bounding_box()
ScBox ==
  /\ pc = "sc_box"
  /\ \E r \in {"box", "nobox", "raise"} :
       /\ pc' = CASE r = "box" -> "sc_move" [] r = "nobox" -> "sc_click" [] OTHER -> "sc_wheel"
       /\ primary' = IF r = "raise" THEN "failed" ELSE primary
  /\ UNCHANGED <<runVars, sfVars, scLabel, scRet, forced, normalClicks, forcedClicks, recoveries, scOut>>
  /\ steps' = steps

\* await page.mouse.move(x, y, steps=...)
ScMove ==
  /\ pc = "sc_move"
  /\ \E ok \in BOOLEAN :
       /\ pc' = IF ok THEN "sc_click" ELSE "sc_wheel"
       /\ primary' = IF ok THEN primary ELSE "failed"
  /\ UNCHANGED <<runVars, sfVars, scLabel, scRet, forced, normalClicks, forcedClicks, recoveries, scOut>>
  /\ steps' = steps

\* Mutant: a failed first click returns False without any recovery.
ScClickNoRecovery ==
  /\ pc = "sc_click"
  /\ normalClicks' = normalClicks + 1
  /\ \E ok \in BOOLEAN :
       /\ primary' = IF ok THEN "ok" ELSE "failed"
       /\ scOut' = IF ok THEN "true" ELSE "false"
       /\ pc' = scRet
  /\ UNCHANGED <<runVars, sfVars, scLabel, scRet, forced, forcedClicks, recoveries>>
  /\ steps' = steps

\* await asyncio.sleep(...); await locator.click(); return True
ScClick ==
  /\ pc = "sc_click"
  /\ normalClicks' = normalClicks + 1
  /\ \E ok \in BOOLEAN :
       /\ primary' = IF ok THEN "ok" ELSE "failed"
       /\ scOut' = IF ok THEN "true" ELSE scOut
       /\ pc' = IF ok THEN scRet ELSE "sc_wheel"
  /\ UNCHANGED <<runVars, sfVars, scLabel, scRet, forced, forcedClicks, recoveries>>
  /\ steps' = steps

\* except Exception: scroll_amount = random.choice([-200, 200]);
\* await page.mouse.wheel(0, scroll_amount); await asyncio.sleep(1.0)
\* The scroll is outside the inner try: its exception leaves smart_click.
ScWheel ==
  /\ pc = "sc_wheel"
  /\ recoveries' = recoveries + 1
  /\ \E ok \in BOOLEAN :
       /\ scOut' = IF ok THEN scOut ELSE "raised"
       /\ pc' = IF ok THEN "sc_forced" ELSE ScRaiseTarget(scRet)
  /\ UNCHANGED <<runVars, sfVars, scLabel, scRet, primary, forced, normalClicks, forcedClicks>>
  /\ steps' = steps

\* Mutant: a failed forced click starts the recovery again.
ScForcedRetry ==
  /\ pc = "sc_forced"
  /\ forcedClicks' = forcedClicks + 1
  /\ \E ok \in BOOLEAN :
       /\ forced' = IF ok THEN "ok" ELSE "failed"
       /\ scOut' = IF ok THEN "true" ELSE scOut
       /\ pc' = IF ok THEN scRet ELSE "sc_wheel"
  /\ UNCHANGED <<runVars, sfVars, scLabel, scRet, primary, normalClicks, recoveries>>
  /\ steps' = steps

\* try: await locator.click(force=True, timeout=2000); return True
\* except Exception: return False
ScForced ==
  /\ pc = "sc_forced"
  /\ forcedClicks' = forcedClicks + 1
  /\ \E ok \in BOOLEAN :
       /\ forced' = IF ok THEN "ok" ELSE "failed"
       /\ scOut' = IF ok THEN "true" ELSE "false"
       /\ pc' = scRet
  /\ UNCHANGED <<runVars, sfVars, scLabel, scRet, primary, normalClicks, recoveries>>
  /\ steps' = steps

\* --------------------------------------------------------- safe_find_text
\* History kept for one resolver call: the first candidate seen with a
\* visible match, and what was seen for it.
Observe(o, i) ==
  /\ firstVis' = IF firstVis = 0 /\ AnyVisible(o.vis) THEN i ELSE firstVis
  /\ firstVisObs' = IF firstVis = 0 /\ AnyVisible(o.vis) THEN o.vis ELSE firstVisObs
  /\ threw' = (threw \/ o.throws)

\* Entry of safe_find_text(page, ts, timeout), called with continuation ret.
CallFind(ts, ret) ==
  /\ texts' = ts
  /\ resolver' = "text"
  /\ sfIdx' = 1
  /\ tried' = <<>>
  /\ firstVis' = 0
  /\ firstVisObs' = <<>>
  /\ threw' = FALSE
  /\ sfOut' = Pending
  /\ sfRet' = ret
  /\ pc' = "sf_loop"

\* The frame of a finished smart_click call is gone once its caller goes on.
PopClick ==
  /\ scLabel' = "none"
  /\ scRet' = "none"
  /\ primary' = "none"
  /\ forced' = "none"
  /\ normalClicks' = 0
  /\ forcedClicks' = 0
  /\ recoveries' = 0
  /\ scOut' = "pending"

\* The frame of a finished safe_find_text call is gone once its caller has
\* taken the returned element.
PopFind ==
  /\ texts' = <<>>
  /\ resolver' = "text"
  /\ sfIdx' = 1
  /\ tried' = <<>>
  /\ firstVis' = 0
  /\ firstVisObs' = <<>>
  /\ threw' = FALSE
  /\ sfOut' = Pending
  /\ sfRet' = "none"

\* Mutant: the exception of a lookup leaves safe_find_text.
SfBodyPropagates(o, i) ==
  IF o.throws THEN [out |-> Raised, done |-> TRUE]
  ELSE IF Len(o.vis) > 0 /\ o.vis[1] THEN [out |-> <<i, 1>>, done |-> TRUE]
  ELSE [out |-> Pending, done |-> FALSE]

\* Body of the for loop for candidate i, given what its lookup observes:
\* try: el = page.get_by_text(t, exact=False)
\*      if await el.count() > 0 and await el.first.is_visible(): return el.first
\* except: continue
SfBody(o, i) ==
  IF Resolves(o) THEN [out |-> <<i, 1>>, done |-> TRUE]
  ELSE [out |-> Pending, done |-> FALSE]

\* One iteration of `for t in texts`
SfLookup ==
  /\ pc = "sf_loop"
  /\ sfIdx <= Len(texts)
  /\ \E o \in Outcomes :
       /\ tried' = Append(tried, <<"text", sfIdx>>)
       /\ Observe(o, sfIdx)
       /\ sfOut' = SfBody(o, sfIdx).out
       /\ IF SfBody(o, sfIdx).done
            THEN pc' = sfRet /\ sfIdx' = sfIdx
            ELSE pc' = pc /\ sfIdx' = sfIdx + 1
  /\ UNCHANGED <<runVars, scVars, texts, resolver, sfRet>>
  /\ steps' = steps

\* Loop exhausted: return None
SfReturnNone ==
  /\ pc = "sf_loop"
  /\ sfIdx > Len(texts)
  /\ sfOut' = None
  /\ pc' = sfRet
  /\ UNCHANGED <<runVars, scVars, texts, resolver, sfIdx, tried, firstVis, firstVisObs, threw, sfRet>>
  /\ steps' = steps

\* ---------------------------------------------------- run_flow (scripted)
\* launch_browser: browser = await pw.chromium.launch(headless=False, args=[...])
\* run_flow's own variable `browser` stays None until launch_browser returns.
FLaunch ==
  /\ pc = "f_launch"
  /\ \E ok \in BOOLEAN :
       /\ launchLog' = Append(launchLog, <<"chromium", ok>>)
       /\ launched' = IF ok THEN launched + 1 ELSE launched
       /\ pc' = IF ok THEN "f_context" ELSE "f_except"
  /\ UNCHANGED <<others, prog, input, url, browser, closeCalls, navs, agentStarted, artifacts,
                 runOut, mainOut, trigger, result, sfVars, scVars>>
  /\ steps' = Append(steps, "launch")

\* launch_browser: context = await browser.new_context(...)
FContext ==
  /\ pc = "f_context"
  /\ \E ok \in BOOLEAN : pc' = IF ok THEN "f_page" ELSE "f_except"
  /\ UNCHANGED <<runVars, sfVars, scVars>>
  /\ steps' = steps

\* launch_browser: page = await context.new_page()
FPage ==
  /\ pc = "f_page"
  /\ \E ok \in BOOLEAN : pc' = IF ok THEN "f_script" ELSE "f_except"
  /\ UNCHANGED <<runVars, sfVars, scVars>>
  /\ steps' = steps

\* launch_browser: await page.add_init_script(stealth_js); return browser, context, page
\* run_flow: browser, context, page = await launch_browser(pw)
FScript ==
  /\ pc = "f_script"
  /\ \E ok \in BOOLEAN :
       /\ browser' = IF ok THEN "browser" ELSE browser
       /\ pc' = IF ok THEN "f_goto" ELSE "f_except"
  /\ UNCHANGED <<others, prog, input, url, launchLog, launched, closeCalls, navs, agentStarted,
                 artifacts, runOut, mainOut, trigger, result, sfVars, scVars>>
  /\ steps' = Append(steps, "init_script")

\* try: await page.goto(URL, ...) except PWTimeoutError: print("[WARN] ...")
\* Any other exception of goto goes to run_flow's `except Exception`.
FGoto ==
  /\ pc = "f_goto"
  /\ navs' = navs + 1
  /\ \E r \in {"ok", "timeout", "error"} :
       /\ pc' = IF r = "error" THEN "f_except" ELSE "ck_start"
       /\ steps' = steps \o (IF r = "ok" THEN <<"goto">> ELSE <<"goto", "goto_" \o r>>)
  /\ UNCHANGED <<others, prog, input, url, browser, launchLog, launched, closeCalls, agentStarted,
                 artifacts, runOut, mainOut, trigger, result, sfVars, scVars>>

\* accept_cookies: await human_pause("check cookies"); for text in SELECTORS["cookies"]
CkStart ==
  /\ pc = "ck_start"
  /\ texts' = SELECTORS.cookies
  /\ resolver' = "role"
  /\ sfIdx' = 1
  /\ tried' = <<>>
  /\ firstVis' = 0
  /\ firstVisObs' = <<>>
  /\ threw' = FALSE
  /\ sfOut' = Pending
  /\ sfRet' = "none"
  /\ pc' = "ck_loop"
  /\ UNCHANGED <<runVars, scVars>>
  /\ steps' = Append(steps, "cookies")

\* accept_cookies, one iteration:
\* try: btn = page.get_by_role("button", name=text, exact=True)
\*      if await btn.count() > 0 and await btn.first.is_visible():
\*          await smart_click(page, btn.first, "cookies"); return
\* except: pass
CkLookup ==
  /\ pc = "ck_loop"
  /\ sfIdx <= Len(texts)
  /\ \E o \in Outcomes :
       /\ tried' = Append(tried, <<"role", sfIdx>>)
       /\ Observe(o, sfIdx)
       /\ IF Resolves(o)
            THEN /\ sfOut' = <<sfIdx, 1>>
                 /\ sfIdx' = sfIdx
                 /\ CallClick("cookies", "ck_ret")
                 /\ steps' = Append(steps, "cookie_click")
            ELSE /\ sfOut' = sfOut
                 /\ steps' = steps
                 /\ sfIdx' = sfIdx + 1
                 /\ pc' = pc
                 /\ UNCHANGED scVars
  /\ UNCHANGED <<runVars, texts, resolver, sfRet>>

\* accept_cookies: smart_click raised inside the try: `except: pass`, next text
CkExcept ==
  /\ pc = "ck_except"
  /\ sfIdx' = sfIdx + 1
  /\ pc' = "ck_loop"
  /\ PopClick
  /\ UNCHANGED <<runVars, texts, resolver, tried, firstVis, firstVisObs, threw, sfOut, sfRet>>
  /\ steps' = steps

\* accept_cookies: loop exhausted, print("[INFO] No se detecto banner de cookies.")
CkNone ==
  /\ pc = "ck_loop"
  /\ sfIdx > Len(texts)
  /\ sfOut' = IF sfOut = Pending THEN None ELSE sfOut
  /\ steps' = Append(steps, IF firstVis = 0 THEN "cookie_absent" ELSE "cookie_none")
  /\ pc' = "ps_start"
  /\ UNCHANGED <<runVars, scVars, texts, resolver, sfIdx, tried, firstVis, firstVisObs, threw, sfRet>>

\* accept_cookies: smart_click returned; return
CkReturn ==
  /\ pc = "ck_ret"
  /\ pc' = "ps_start"
  /\ UNCHANGED <<runVars, sfVars>>
  /\ PopClick
  /\ steps' = steps

\* perform_search: await human_pause("pre search")
\* trigger = await safe_find_text(page, SELECTORS["search_trigger"])
PsStart ==
  /\ pc = "ps_start"
  /\ CallFind(SELECTORS.search_trigger, "ps_found")
  /\ UNCHANGED <<runVars, scVars>>
  /\ steps' = Append(steps, "search")

CssElem(j) == <<10 + j, 1>>

\* perform_search: if not trigger: for sel in css_triggers:
\*   l = page.locator(sel).first; if await l.is_visible(): trigger = l; break
\* is_visible is not guarded here: its exception leaves perform_search.
PsFound ==
  /\ pc = "ps_found"
  /\ IF sfOut # None
       THEN /\ trigger' = sfOut
            /\ pc' = "ps_trigger"
       ELSE \E r \in [1..Len(css_triggers) -> {"visible", "hidden", "raise"}] :
              LET hit == {j \in 1..Len(css_triggers) : r[j] # "hidden"}
                  j0  == CHOOSE j \in hit : \A h \in hit : j <= h
              IN  IF hit = {} THEN trigger' = None /\ pc' = "ps_trigger"
                  ELSE IF r[j0] = "visible" THEN trigger' = CssElem(j0) /\ pc' = "ps_trigger"
                  ELSE trigger' = None /\ pc' = "f_except"
  /\ UNCHANGED <<others, prog, input, url, browser, launchLog, launched, closeCalls, navs,
                 agentStarted, artifacts, runOut, mainOut, result, scVars>>
  /\ PopFind
  /\ steps' = steps

\* perform_search: if trigger: await smart_click(page, trigger, "search_trigger")
\* else: print("[WARN] No se encontro boton de busqueda.")
PsTrigger ==
  /\ pc = "ps_trigger"
  /\ IF trigger # None
       THEN CallClick("search_trigger", "ps_clicked")
       ELSE pc' = "nt_start" /\ UNCHANGED scVars
  /\ UNCHANGED <<runVars, sfVars>>
  /\ steps' = steps

\* perform_search: await human_pause("wait input"); try: inp.wait_for, inp.click,
\* keyboard.type per character, keyboard.press("Enter");
\* res = await safe_find_text(page, [SEARCH_QUERY], timeout=5000)
PsInput ==
  /\ pc = "ps_clicked"
  /\ \E ok \in BOOLEAN :
       IF ok THEN CallFind(<<SEARCH_QUERY>>, "ps_res") /\ steps' = Append(steps, "result_select")
       ELSE pc' = "ps_except" /\ UNCHANGED <<sfVars, steps>>
  /\ UNCHANGED runVars
  /\ PopClick

\* perform_search: if res: await human_pause("found result");
\* await smart_click(page, res, "search_result") else: print("[WARN] ...")
PsRes ==
  /\ pc = "ps_res"
  /\ IF sfOut # None
       THEN CallClick("search_result", "ps_res_clicked")
       ELSE pc' = "nt_start" /\ UNCHANGED scVars
  /\ UNCHANGED runVars
  /\ PopFind
  /\ steps' = steps

\* perform_search: smart_click on the result returned; end of the try block
PsResClicked ==
  /\ pc = "ps_res_clicked"
  /\ pc' = "nt_start"
  /\ UNCHANGED <<runVars, sfVars>>
  /\ PopClick
  /\ steps' = steps

\* perform_search: except Exception as e: print(...); await page.screenshot(...)
PsExcept ==
  /\ pc = "ps_except"
  /\ \E ok \in BOOLEAN : pc' = IF ok THEN "nt_start" ELSE "f_except"
  /\ UNCHANGED <<runVars, sfVars>>
  /\ PopClick
  /\ steps' = steps

\* navigate_match_tabs: bb = await safe_find_text(page, SELECTORS["bet_builder"], ...)
NtStart ==
  /\ pc = "nt_start"
  /\ CallFind(SELECTORS.bet_builder, "nt_bb")
  /\ UNCHANGED <<runVars, scVars>>
  /\ steps' = Append(steps, "tabs")

\* navigate_match_tabs: if bb: await smart_click(page, bb, "bet_builder_tab")
NtBb ==
  /\ pc = "nt_bb"
  /\ IF sfOut # None
       THEN CallClick("bet_builder_tab", "nt_bb_clicked")
       ELSE pc' = "nt_ps_find" /\ UNCHANGED scVars
  /\ UNCHANGED runVars
  /\ PopFind
  /\ steps' = steps

\* navigate_match_tabs: await human_pause("tab switch")
NtBbClicked ==
  /\ pc = "nt_bb_clicked"
  /\ pc' = "nt_ps_find"
  /\ UNCHANGED <<runVars, sfVars>>
  /\ PopClick
  /\ steps' = steps

\* navigate_match_tabs: ps = await safe_find_text(page, SELECTORS["player_section"], ...)
NtPsFind ==
  /\ pc = "nt_ps_find"
  /\ CallFind(SELECTORS.player_section, "nt_ps")
  /\ UNCHANGED <<runVars, scVars>>
  /\ steps' = steps

\* navigate_match_tabs: if ps: await smart_click(page, ps, "player_section_tab")
NtPs ==
  /\ pc = "nt_ps"
  /\ IF sfOut # None
       THEN CallClick("player_section_tab", "nt_ps_clicked")
       ELSE pc' = "vm_start" /\ UNCHANGED scVars
  /\ UNCHANGED runVars
  /\ PopFind
  /\ steps' = steps

\* navigate_match_tabs: await human_pause("section load")
NtPsClicked ==
  /\ pc = "nt_ps_clicked"
  /\ pc' = "vm_start"
  /\ UNCHANGED <<runVars, sfVars>>
  /\ PopClick
  /\ steps' = steps

\* verify_market: target = await safe_find_text(page, SELECTORS["shots_target"], ...)
VmStart ==
  /\ pc = "vm_start"
  /\ CallFind(SELECTORS.shots_target, "vm_found")
  /\ UNCHANGED <<runVars, scVars>>
  /\ steps' = Append(steps, "verify")

\* verify_market: print found / not available; run_flow: print("[BOT] Sesion finalizada")
VmFound ==
  /\ pc = "vm_found"
  /\ pc' = "f_finally"
  /\ UNCHANGED <<runVars, scVars>>
  /\ PopFind
  /\ steps' = steps

\* run_flow: except Exception as e: print(f"[CRITICAL] ...")
FExcept ==
  /\ pc = "f_except"
  /\ pc' = "f_finally"
  /\ UNCHANGED <<runVars, sfVars>>
  /\ PopClick
  /\ steps' = Append(steps, "critical")

\* run_flow: finally: if browser: await browser.close()
FFinally ==
  /\ pc = "f_finally"
  /\ closeCalls' = IF browser # "None" THEN closeCalls + 1 ELSE closeCalls
  /\ steps' = IF browser # "None" THEN Append(steps, "close") ELSE steps
  /\ runOut' = [kind |-> "none", data |-> JNull]
  /\ pc' = "done"
  /\ UNCHANGED <<others, prog, input, url, browser, launchLog, launched, navs, agentStarted,
                 artifacts, mainOut, trigger, result, sfVars, scVars>>

\* ------------------------------------------------ main / run_miner (hybrid)
\* The record the task prompt asks the agent for, and its declared error object
Player(n, l, o) ==
  JObj(<< <<"name", JStr(<<n>>)>>, <<"line", JStr(<<l>>)>>, <<"odd", JStr(<<o>>)>> >>)
Players == {Player("X", "+0.5", "2.50"), Player("Y", "+1.5", "3.20")}
PlayerSeqs == UNION {[1..n -> Players] : n \in 0..MaxPlayers}
Record(ps) ==
  JObj(<< <<"match", JStr(<<"AvsB">>)>>, <<"market", JStr(<<"Shots">>)>>,
          <<"players", JArr(ps)>> >>)
Records == {Record(ps) : ps \in PlayerSeqs}
ErrorObject == JObj(<< <<"error", JStr(<<"MarketNotFound">>)>> >>)

\* Other well-formed JSON values a language model can answer with
OtherValues ==
  {JNull, JNum("0"), JNum("42"), JArr(<<>>), JObj(<<>>), JStr(<<"X">>),
   JObj(<< <<"match", JStr(<<"AvsB">>)>> >>),
   JArr(<<Player("X", "+0.5", "2.50")>>)}

\* Texts that are not JSON: empty, prose, a truncated record, a record followed
\* by prose
InvalidTexts ==
  {<<>>, <<"no", "data", "found">>,
   SubSeq(JsonDump(Record(<<>>)), 1, 9),
   JsonDump(ErrorObject) \o <<"done">>}

\* A well-formed text with a repeated key
RepeatedKeyText ==
  <<"{", Quote("error"), ":", Quote("X"), ",", Quote("error"), ":", Quote("Y"), "}">>

AgentTexts ==
  {JsonDump(v) : v \in Records \cup {ErrorObject} \cup OtherValues}
  \cup InvalidTexts \cup {RepeatedKeyText}

\* Terminal results of the agent: history.final_result() is a text or not.
AgentResults ==
  {[str |-> TRUE, text |-> t, py |-> JNull] : t \in AgentTexts}
  \cup {[str |-> FALSE, text |-> <<>>, py |-> v] : v \in {JNull, Record(<<>>)}}

\* The sink's data: json.loads(result) for a text, else the wrapping dict;
\* JSONDecodeError selects the fallback
SinkParsed(r) == JsonLoads(r.text)
SinkFallback(r) == r.str /\ ~SinkParsed(r).ok
\* Mutant: the fallback loses the text it was built from.
SinkDataDropsText(r) ==
  IF ~r.str
  THEN JObj(<< <<"result", JStr(PyStr(r.py))>>, <<"type", JStr(<<TypeName(r.py)>>)>> >>)
  ELSE IF SinkParsed(r).ok THEN SinkParsed(r).value
  ELSE JObj(<< <<"raw_output", JStr(<<>>)>> >>)
\* run_miner: data as returned by `return data` / `return {"raw_output": ...}`
SinkData(r) ==
  IF ~r.str
  THEN JObj(<< <<"result", JStr(PyStr(r.py))>>, <<"type", JStr(<<TypeName(r.py)>>)>> >>)
  ELSE IF SinkParsed(r).ok THEN SinkParsed(r).value
  ELSE JObj(<< <<"raw_output", JStr(r.text)>> >>)

\* Mutant: both files are written whatever the text.
SinkArtifactsBoth(r) ==
  {<<"extracted_odds.json", JsonDump(SinkData(r))>>, <<"extracted_odds.txt", r.text>>}
\* The file the sink writes: json.dump(data) or f.write(str(result))
SinkArtifacts(r) ==
  IF SinkFallback(r) THEN {<<"extracted_odds.txt", r.text>>}
  ELSE {<<"extracted_odds.json", JsonDump(SinkData(r))>>}

\* Python truth value of what run_miner returned, as tested by `if result:`
Truthy(out) == PyTruthy(out.data)

\* main's summary: `"error" in result` raises TypeError on an int
MainSummary(v) == IF v.t = "num" THEN "raised" ELSE "summary"

\* main: url = input(...).strip(); if not url: print("[ERROR] ..."); return
MInput ==
  /\ pc = "m_input"
  /\ url' = Strip(input)
  /\ IF Strip(input) = <<>>
       THEN mainOut' = "returned" /\ pc' = "done"
       ELSE mainOut' = mainOut /\ pc' = "rm_launch1"
  /\ UNCHANGED <<others, prog, input, browser, launchLog, launched, closeCalls, navs, agentStarted,
                 artifacts, runOut, trigger, result, sfVars, scVars>>
  /\ steps' = steps

\* run_miner: try: browser_pw = await p.chromium.launch(channel="chrome", ...)
RmLaunch1 ==
  /\ pc = "rm_launch1"
  /\ \E ok \in BOOLEAN :
       /\ launchLog' = Append(launchLog, <<"chrome", ok>>)
       /\ launched' = IF ok THEN launched + 1 ELSE launched
       /\ browser' = IF ok THEN "browser" ELSE browser
       /\ pc' = IF ok THEN "rm_context" ELSE "rm_launch2"
  /\ UNCHANGED <<others, prog, input, url, closeCalls, navs, agentStarted, artifacts, runOut,
                 mainOut, trigger, result, sfVars, scVars>>
  /\ steps' = Append(steps, "launch")

\* run_miner: except Exception as e: browser_pw = await p.chromium.launch(channel="msedge", ...)
\* This launch is inside the handler, before the try/except/finally of the run:
\* its exception leaves run_miner, and main has no handler around run_miner.
RmLaunch2 ==
  /\ pc = "rm_launch2"
  /\ \E ok \in BOOLEAN :
       /\ launchLog' = Append(launchLog, <<"msedge", ok>>)
       /\ launched' = IF ok THEN launched + 1 ELSE launched
       /\ browser' = IF ok THEN "browser" ELSE browser
       /\ runOut' = IF ok THEN runOut ELSE [kind |-> "raised", data |-> JNull]
       /\ mainOut' = IF ok THEN mainOut ELSE "raised"
       /\ pc' = IF ok THEN "rm_context" ELSE "done"
  /\ UNCHANGED <<others, prog, input, url, closeCalls, navs, agentStarted, artifacts,
                 trigger, result, sfVars, scVars>>
  /\ steps' = steps

\* run_miner: context_pw = await browser_pw.new_context(...)
RmContext ==
  /\ pc = "rm_context"
  /\ \E ok \in BOOLEAN : pc' = IF ok THEN "rm_page" ELSE "rm_except"
  /\ UNCHANGED <<runVars, sfVars, scVars>>
  /\ steps' = steps

\* run_miner: page_pw = await context_pw.new_page()
RmPage ==
  /\ pc = "rm_page"
  /\ \E ok \in BOOLEAN : pc' = IF ok THEN "rm_script" ELSE "rm_except"
  /\ UNCHANGED <<runVars, sfVars, scVars>>
  /\ steps' = steps

\* run_miner: stealth_js = await get_stealth_scripts(); await page_pw.add_init_script(stealth_js)
RmScript ==
  /\ pc = "rm_script"
  /\ \E ok \in BOOLEAN : pc' = IF ok THEN "rm_goto" ELSE "rm_except"
  /\ UNCHANGED <<runVars, sfVars, scVars>>
  /\ steps' = Append(steps, "init_script")

\* safe_go_to: try: await page.goto(url, timeout=90000, ...) except Exception: print warning
safe_go_to ==
  /\ pc = "rm_goto"
  /\ navs' = navs + 1
  /\ pc' = "rm_dwell"
  /\ \E ok \in BOOLEAN : steps' = steps \o (IF ok THEN <<"goto">> ELSE <<"goto", "goto_error">>)
  /\ UNCHANGED <<others, prog, input, url, browser, launchLog, launched, closeCalls, agentStarted,
                 artifacts, runOut, mainOut, trigger, result, sfVars, scVars>>

\* Mutant: the handoff follows the navigation with no dwell in between.
RmDwellSkipped ==
  /\ pc = "rm_dwell"
  /\ pc' = "rm_attach"
  /\ UNCHANGED <<runVars, sfVars, scVars>>
  /\ steps' = steps

\* run_miner: await asyncio.sleep(15)
RmDwell ==
  /\ pc = "rm_dwell"
  /\ pc' = "rm_attach"
  /\ UNCHANGED <<runVars, sfVars, scVars>>
  /\ steps' = Append(steps, "dwell")

\* run_miner: browser_use_session = Browser(cdp_url=...); agent = Agent(task, llm, browser, controller)
RmAttach ==
  /\ pc = "rm_attach"
  /\ \E ok \in BOOLEAN :
       /\ pc' = IF ok THEN "rm_agent" ELSE "rm_except"
       /\ steps' = steps \o (IF ok THEN <<"attach">> ELSE <<"attach", "agent_raised">>)
  /\ UNCHANGED <<runVars, sfVars, scVars>>

\* run_miner: history = await agent.run(); result = history.final_result() ...
RmAgent ==
  /\ pc = "rm_agent"
  /\ agentStarted' = TRUE
  /\ \/ \E r \in AgentResults :
          result' = r /\ pc' = "rm_sink" /\ steps' = Append(steps, "agent")
     \/ result' = result /\ pc' = "rm_except" /\ steps' = steps \o <<"agent", "agent_raised">>
  /\ UNCHANGED <<others, prog, input, url, browser, launchLog, launched, closeCalls, navs,
                 artifacts, runOut, mainOut, trigger, sfVars, scVars>>

\* run_miner: try: data = json.loads(result) if isinstance(result, str)
\*                 else {"result": str(result), "type": type(result).__name__}
\*                 write extracted_odds.json; return data
\*            except json.JSONDecodeError: write extracted_odds.txt;
\*                 return {"raw_output": str(result)}
\* Writing the file is local IO and, like browser.close(), is taken not to fail.
RmSink ==
  /\ pc = "rm_sink"
  /\ artifacts' = artifacts \cup SinkArtifacts(result)
  /\ runOut' = [kind |-> IF SinkFallback(result) THEN "fallback" ELSE "value",
                data |-> SinkData(result)]
  /\ pc' = "rm_finally"
  /\ UNCHANGED <<others, prog, input, url, browser, launchLog, launched, closeCalls, navs,
                 agentStarted, mainOut, trigger, result, sfVars, scVars>>
  /\ steps' = Append(steps, "sink")

\* Mutant: the handler returns None without the finally block being run.
RmExceptSkipsClose ==
  /\ pc = "rm_except"
  /\ runOut' = [kind |-> "none", data |-> JNull]
  /\ pc' = "m_report"
  /\ UNCHANGED <<others, prog, input, url, browser, launchLog, launched, closeCalls, navs,
                 agentStarted, artifacts, mainOut, trigger, result, sfVars, scVars>>
  /\ steps' = Append(steps, "except")

\* run_miner: except Exception as e: print, traceback; return None
RmExcept ==
  /\ pc = "rm_except"
  /\ runOut' = [kind |-> "none", data |-> JNull]
  /\ pc' = "rm_finally"
  /\ UNCHANGED <<others, prog, input, url, browser, launchLog, launched, closeCalls, navs,
                 agentStarted, artifacts, mainOut, trigger, result, sfVars, scVars>>
  /\ steps' = Append(steps, "except")

\* run_miner: finally: if browser_pw: await browser_pw.close()
RmFinally ==
  /\ pc = "rm_finally"
  /\ closeCalls' = IF browser # "None" THEN closeCalls + 1 ELSE closeCalls
  /\ steps' = IF browser # "None" THEN Append(steps, "close") ELSE steps
  /\ pc' = "m_report"
  /\ UNCHANGED <<others, prog, input, url, browser, launchLog, launched, navs, agentStarted,
                 artifacts, runOut, mainOut, trigger, result, sfVars, scVars>>

\* main: result = await run_miner(url); if result: summary else: "No se pudo extraer"
MReport ==
  /\ pc = "m_report"
  /\ mainOut' = IF Truthy(runOut) THEN MainSummary(runOut.data) ELSE "no_data"
  /\ pc' = "done"
  /\ UNCHANGED <<others, prog, input, url, browser, launchLog, launched, closeCalls, navs,
                 agentStarted, artifacts, runOut, trigger, result, sfVars, scVars>>
  /\ steps' = steps

\* ---------------------------------------------------------- specification
\* Variables of the single run, untouched by the programs below
mainVars == <<pc, prog, input, url, browser, launchLog, launched, closeCalls, navs,
              agentStarted, artifacts, runOut, mainOut, trigger, result,
              sfVars, scVars, steps>>

\* ------------------------------------------- two concurrent run_miner calls
\* chromium.launch(args=["--remote-debugging-port=9222", ...]): the browser
\* that starts listens on 9222 only if no live browser holds that port
CcStarted(r, ok, failPc) ==
  IF ok
  THEN conc' = [conc EXCEPT !.pc[r] = "setup", !.own[r] = r,
                            !.alive = @ \cup {r},
                            !.port = IF @ = 0 THEN r ELSE @]
  ELSE conc' = [conc EXCEPT !.pc[r] = failPc,
                            !.out[r] = IF failPc = "done" THEN "raised" ELSE @]

\* run_miner: browser_pw = await p.chromium.launch(channel="chrome", ...)
CcLaunch1(r) ==
  /\ prog = "conc" /\ conc.pc[r] = "launch"
  /\ \E ok \in BOOLEAN : CcStarted(r, ok, "launch2")
  /\ UNCHANGED <<mainVars, db, odds, arb>>

\* run_miner: except: browser_pw = await p.chromium.launch(channel="msedge", ...)
CcLaunch2(r) ==
  /\ prog = "conc" /\ conc.pc[r] = "launch2"
  /\ \E ok \in BOOLEAN : CcStarted(r, ok, "done")
  /\ UNCHANGED <<mainVars, db, odds, arb>>

\* run_miner: new_context, new_page, add_init_script, safe_go_to
CcSetup(r) ==
  /\ prog = "conc" /\ conc.pc[r] = "setup"
  /\ \E ok \in BOOLEAN :
       conc' = [conc EXCEPT !.pc[r] = IF ok THEN "dwell" ELSE "finally",
                            !.out[r] = IF ok THEN @ ELSE "none"]
  /\ UNCHANGED <<mainVars, db, odds, arb>>

\* run_miner: await asyncio.sleep(15)
CcDwell(r) ==
  /\ prog = "conc" /\ conc.pc[r] = "dwell"
  /\ conc' = [conc EXCEPT !.pc[r] = "attach"]
  /\ UNCHANGED <<mainVars, db, odds, arb>>

\* run_miner: Browser(cdp_url="http://localhost:9222"); Agent(...); agent.run()
\* connects to whatever browser listens on 9222, or fails when nobody does
CcAttach(r) ==
  /\ prog = "conc" /\ conc.pc[r] = "attach"
  /\ \E ok \in BOOLEAN :
       IF ok /\ conc.port # 0
       THEN conc' = [conc EXCEPT !.pc[r] = "agent", !.att[r] = conc.port]
       ELSE conc' = [conc EXCEPT !.pc[r] = "finally", !.out[r] = "none"]
  /\ UNCHANGED <<mainVars, db, odds, arb>>

\* run_miner: history = await agent.run() ends; the sink returns, or the
\* handler returns None (always so once the agent's browser is gone)
CcAgent(r) ==
  /\ prog = "conc" /\ conc.pc[r] = "agent"
  /\ \E ok \in BOOLEAN :
       conc' = [conc EXCEPT !.pc[r] = "finally",
                            !.out[r] = IF ok /\ ~conc.cut[r] THEN "value" ELSE "none"]
  /\ UNCHANGED <<mainVars, db, odds, arb>>

\* run_miner: finally: if browser_pw: await browser_pw.close()
CcFinally(r) ==
  /\ prog = "conc" /\ conc.pc[r] = "finally"
  /\ conc' = [conc EXCEPT
       !.pc[r] = "done",
       !.alive = @ \ {conc.own[r]},
       !.port = IF @ = conc.own[r] THEN 0 ELSE @,
       !.cut = [q \in Runs |-> @[q] \/ (q # r /\ conc.pc[q] = "agent" /\ conc.att[q] = conc.own[r])]]
  /\ UNCHANGED <<mainVars, db, odds, arb>>

\* ---------------------------------------------- setup_db.initialize_database
\* create_connection: makedirs, sqlite3.connect, PRAGMA foreign_keys; a
\* sqlite3.Error gives None, and initialize_database returns False on None;
\* an OSError of makedirs is not caught
DbConnect ==
  /\ prog = "db" /\ db.pc = "connect"
  /\ \E r \in {"ok", "Error", "OSError"} :
       db' = CASE r = "ok" -> [db EXCEPT !.conn = "open", !.pc = "schema"]
               [] r = "Error" -> [db EXCEPT !.connFailed = TRUE, !.ret = "false", !.pc = "done"]
               [] r = "OSError" -> [db EXCEPT !.ret = "raised", !.pc = "done"]
  /\ UNCHANGED <<mainVars, conc, odds, arb>>

\* create_schema: cur.execute(...) of the next CREATE ... IF NOT EXISTS; a
\* sqlite3.Error is printed and create_schema returns None
DbExecute ==
  /\ prog = "db" /\ db.pc = "schema" /\ db.idx <= Len(SchemaStmts)
  /\ \E ok \in BOOLEAN :
       db' = IF ok
             THEN [db EXCEPT !.present = @ \cup {SchemaStmts[db.idx]}, !.idx = @ + 1]
             ELSE [db EXCEPT !.schemaFailed = TRUE, !.pc = "close"]
  /\ UNCHANGED <<mainVars, conc, odds, arb>>

\* create_schema: conn.commit(), under the same except clause
DbCommit ==
  /\ prog = "db" /\ db.pc = "schema" /\ db.idx > Len(SchemaStmts)
  /\ \E ok \in BOOLEAN :
       db' = IF ok
             THEN [db EXCEPT !.committed = TRUE, !.pc = "close"]
             ELSE [db EXCEPT !.schemaFailed = TRUE, !.pc = "close"]
  /\ UNCHANGED <<mainVars, conc, odds, arb>>

\* initialize_database: create_schema(conn); conn.close(); return True
DbClose ==
  /\ prog = "db" /\ db.pc = "close"
  /\ db' = [db EXCEPT !.conn = "closed", !.ret = "true", !.pc = "done"]
  /\ UNCHANGED <<mainVars, conc, odds, arb>>

\* ------------------------------------------------------ logic.BetCalculator
\* sum(1 / odd for odd in odds if odd > 0), in units of 1/ProbUnit
RECURSIVE ImpliedSum(_)
ImpliedSum(os) ==
  IF os = <<>> THEN 0
  ELSE (IF Head(os) > 0 THEN ProbUnit \div Head(os) ELSE 0) + ImpliedSum(Tail(os))

\* BetCalculator.calculate_arbitrage_margin: if not odds: return 0.0
calculate_arbitrage_margin(os) == IF os = <<>> THEN 0 ELSE ImpliedSum(os)

\* BetCalculator.is_arbitrage_opportunity: return 0.0 < margin < 1.0
is_arbitrage_opportunity(os) ==
  0 < calculate_arbitrage_margin(os) /\ calculate_arbitrage_margin(os) < ProbUnit

\* A caller evaluates is_arbitrage_opportunity(odds)
CalcArbitrage ==
  /\ prog = "calc" /\ arb = "pending"
  /\ arb' = IF is_arbitrage_opportunity(odds) THEN "true" ELSE "false"
  /\ UNCHANGED <<mainVars, conc, db, odds>>

Next ==
  \/ FLaunch \/ FContext \/ FPage \/ FScript \/ FGoto
  \/ CkStart \/ CkLookup \/ CkExcept \/ CkNone \/ CkReturn
  \/ PsStart \/ PsFound \/ PsTrigger \/ PsInput \/ PsRes \/ PsResClicked \/ PsExcept
  \/ NtStart \/ NtBb \/ NtBbClicked \/ NtPsFind \/ NtPs \/ NtPsClicked
  \/ VmStart \/ VmFound \/ FExcept \/ FFinally
  \/ ScBox \/ ScMove \/ ScClick \/ ScWheel \/ ScForced
  \/ SfLookup \/ SfReturnNone
  \/ MInput \/ RmLaunch1 \/ RmLaunch2 \/ RmContext \/ RmPage \/ RmScript
  \/ safe_go_to \/ RmDwell \/ RmAttach \/ RmAgent \/ RmSink \/ RmExcept
  \/ RmFinally \/ MReport
  \/ \E r \in Runs : \/ CcLaunch1(r) \/ CcLaunch2(r) \/ CcSetup(r) \/ CcDwell(r)
                     \/ CcAttach(r) \/ CcAgent(r) \/ CcFinally(r)
  \/ DbConnect \/ DbExecute \/ DbCommit \/ DbClose
  \/ CalcArbitrage

Spec == Init /\ [][Next]_vars

\* ------------------------------------------------------------- properties
RunEnded == pc = "done"
IsBlank(s) == \A i \in 1..Len(s) : s[i] = " "
AllTextLookups == [n \in 1..Len(texts) |-> <<"text", n>>]

\* C1: once a browser process was launched, close is invoked on it exactly
\* once before the run returns, on every exit path (never more than once,
\* and a run that has ended after a launch has closed its browser).
C1_CloseExactlyOnce ==
  /\ closeCalls <= 1
  /\ (RunEnded /\ launched > 0) => closeCalls = 1

\* C2: when the launch fails on the primary and on the fallback channel, the
\* run returns none to its caller (nothing is raised out of run_miner or
\* main) and no output artifact is written.
C2_LaunchFailureReturnsNone ==
  (prog = "miner" /\ RunEnded /\ launchLog = <<<<"chrome", FALSE>>, <<"msedge", FALSE>>>>)
    => (runOut.kind = "none" /\ mainOut # "raised" /\ artifacts = {})

\* C3: the launch tries the primary channel first, tries exactly one
\* fallback only after the primary attempt failed, fails only when both
\* attempts failed; never more than two attempts, never more than one
\* launched browser.
LaunchOver == Len(launchLog) > 0 /\ pc # "rm_launch2"
C3_PrimaryThenOneFallback ==
  /\ Len(launchLog) <= 2
  /\ launched <= 1
  /\ (Len(launchLog) >= 1 => launchLog[1][1] \in {"chrome", "chromium"})
  /\ (Len(launchLog) = 2 => (~launchLog[1][2] /\ launchLog[2][1] = "msedge"))
  /\ ((LaunchOver /\ launched = 0) =>
        (Len(launchLog) = 2 /\ ~launchLog[1][2] /\ ~launchLog[2][2]))

\* C4: if the line read by main is empty or only whitespace, the run ends
\* at once with no result: no launch attempt, no navigation, the agent is
\* never started, no artifact is written and run_miner is never entered.
C4_BlankUrlShortCircuits ==
  (prog = "miner" /\ IsBlank(input)) =>
     /\ pc \in {"m_input", "done"}
     /\ launchLog = <<>> /\ launched = 0
     /\ navs = 0
     /\ ~agentStarted
     /\ artifacts = {}
     /\ runOut.kind = "pending"
     /\ (RunEnded => mainOut = "returned")

C4_Witness ==
  prog = "miner" /\ Len(input) > 0 /\ IsBlank(input) /\ RunEnded /\ mainOut = "returned"

\* C5: when candidate k is visible (its first match is a visible element)
\* and no candidate before k has a visible match, the resolver (in
\* safe_find_text and in the cookie loop of accept_cookies) yields the
\* element of candidate k and performs no lookup for a candidate after k.
C5_FirstVisibleWins ==
  (firstVis # 0 /\ firstVisObs[1]) =>
     /\ sfOut = <<firstVis, 1>>
     /\ \A n \in 1..Len(tried) : tried[n][2] <= firstVis

\* C6: a candidate resolves whenever one of its matches is visible, and the
\* handle returned is the first visible one among that candidate's matches.
C6_AnyVisibleMatchResolves ==
  (resolver = "text" /\ firstVis # 0) => sfOut = <<firstVis, FirstVisible(firstVisObs)>>

\* C7: safe_find_text never raises; when it returns none it has tried every
\* candidate in list order; when no candidate had a visible match (a lookup
\* that throws counts as no match) it returns none.
C7_AbsenceIsNone ==
  resolver = "text" =>
     /\ sfOut # Raised
     /\ (sfOut = None => tried = AllTextLookups)
     /\ ((sfOut # Pending /\ firstVis = 0) => sfOut = None)

C7_Witness ==
  /\ resolver = "text" /\ sfOut = None /\ threw /\ Len(texts) >= 2
  /\ tried = AllTextLookups /\ pc # "sf_loop"

\* C8: for each candidate, in list order, the resolver first performs the
\* role-qualified exact-name lookup and, only if that yields no visible
\* element, the fuzzy text lookup for the same candidate, before moving on
\* to the next candidate.
C8_RoleThenText ==
  /\ \A n \in 1..Len(tried) :
        tried[n][1] = "text" => (n > 1 /\ tried[n-1] = <<"role", tried[n][2]>>)
  /\ \A n \in 1..(Len(tried) - 1) :
        tried[n][1] = "role" => tried[n+1] = <<"text", tried[n][2]>>

\* C9: one call of smart_click issues at most two physical click attempts,
\* at most one normal and at most one forced, whatever fails.
C9_AtMostTwoClicks ==
  /\ normalClicks <= 1
  /\ forcedClicks <= 1
  /\ normalClicks + forcedClicks <= 2

C9_Witness ==
  normalClicks = 1 /\ forcedClicks = 1 /\ primary = "failed" /\ forced = "failed" /\ scOut = "false"

\* C10: in smart_click the recovery (scroll, then forced click) runs at most
\* once and only after the primary attempt failed; the call returns True
\* exactly when the primary click or the forced click succeeded, and returns
\* False exactly when the primary attempt and the forced click both failed.
C10_RecoveryOnceAndOutcome ==
  /\ recoveries <= 1
  /\ (recoveries > 0 => primary = "failed")
  /\ (forcedClicks > 0 => recoveries = 1)
  /\ (scOut = "true" <=> (primary = "ok" \/ forced = "ok"))
  /\ (scOut = "false" <=> (primary = "failed" /\ forced = "failed"))

C10_Witness ==
  scOut = "true" /\ primary = "failed" /\ recoveries = 1 /\ forced = "ok" /\ pc # "sc_forced"

\* C11: smart_click always returns an outcome to its caller and raises
\* nothing, whichever of bounding-box query, pointer move, first click,
\* recovery scroll or forced click fails.
C11_SmartClickNeverRaises == scOut # "raised"

Has(e) == \E n \in 1..Len(steps) : steps[n] = e

\* C12: when the cookie-consent target is never visible, the scripted run
\* performs no cookie click, still executes the search, tab-navigation and
\* market-verification steps and reaches its end without an exception
\* leaving run_flow.
C12_MissingCookieDoesNotAbort ==
  (prog = "flow" /\ Has("cookie_absent")) =>
     /\ ~Has("cookie_click")
     /\ (RunEnded => (Has("search") /\ Has("tabs") /\ Has("verify") /\ runOut.kind = "none"))

\* C13: after a successful launch no step failure aborts the scripted run:
\* once the cookie step has started, the search, tab-navigation and
\* market-verification steps are all started before the run ends.
C13_NoStepFailureAborts ==
  (prog = "flow" /\ Has("cookies") /\ RunEnded) =>
     (Has("search") /\ Has("tabs") /\ Has("verify") /\ ~Has("critical"))

\* C14: a failure of the initial page load (timeout or any other navigation
\* error) is only a warning: the scripted navigator goes on to the cookie
\* step, the hybrid miner to the warm-up dwell and the agent handoff.
NavFailed == Has("goto_timeout") \/ Has("goto_error")
C14_NavigationFailureIsRecoverable ==
  NavFailed =>
     /\ prog = "flow" => (pc = "ck_start" \/ Has("cookies"))
     /\ prog = "miner" => /\ (pc = "rm_dwell" \/ Has("dwell"))
                          /\ (pc \in {"rm_dwell", "rm_attach"} \/ Has("attach"))

\* C15: if the agent raises during the handoff, the run returns None, writes
\* neither artifact, and the browser has been closed when None reaches main.
C15_AgentFailureReturnsNone ==
  (prog = "miner" /\ Has("agent_raised")) =>
     /\ artifacts = {}
     /\ runOut.kind \in {"pending", "none"}
     /\ (pc \in {"m_report", "done"} =>
           (runOut.kind = "none" /\ closeCalls = 1 /\ Has("close")))
     /\ (RunEnded => mainOut = "no_data")

C15_Witness ==
  prog = "miner" /\ agentStarted /\ Has("agent_raised") /\ RunEnded /\ closeCalls = 1

\* ---------------------------------------------------------------- the sink
SinkDone == prog = "miner" /\ Has("sink")
FileNames == {a[1] : a \in artifacts}

\* C16: when the agent's final text is the serialisation of the expected
\* record, the run returns that record unchanged (players in their order, with
\* their values), the structured artifact holds exactly that content and is the
\* only artifact: no text artifact is written.
C16_RecordRoundTrip ==
  (SinkDone /\ result.str /\ \E rec \in Records : result.text = JsonDump(rec)) =>
     LET rec == CHOOSE r \in Records : result.text = JsonDump(r) IN
       /\ runOut = [kind |-> "value", data |-> rec]
       /\ Cardinality(artifacts) = 1
       /\ \A a \in artifacts :
            /\ a[1] = "extracted_odds.json"
            /\ JsonLoads(a[2]) = [ok |-> TRUE, value |-> rec]
       /\ mainOut \in {"pending", "summary"}

C16_Witness ==
  /\ SinkDone /\ RunEnded /\ mainOut = "summary"
  /\ result.text = JsonDump(Record(<<Player("Y", "+1.5", "3.20"), Player("X", "+0.5", "2.50")>>))
  /\ runOut.data.m[3][2].e[1] = Player("Y", "+1.5", "3.20")

\* C17: when the agent's final text is not valid structured data, the run
\* returns the fallback carrying exactly that text, the text artifact holds
\* exactly that text, no structured artifact is written, and main reports an
\* extraction, not an error.
C17_InvalidTextFallsBack ==
  (SinkDone /\ result.str /\ result.text \in InvalidTexts) =>
     /\ runOut = [kind |-> "fallback",
                  data |-> JObj(<< <<"raw_output", JStr(result.text)>> >>)]
     /\ artifacts = {<<"extracted_odds.txt", result.text>>}
     /\ mainOut \in {"pending", "summary"}

C17_Witness ==
  /\ SinkDone /\ RunEnded /\ mainOut = "summary"
  /\ result.text = <<"no", "data", "found">>
  /\ artifacts = {<<"extracted_odds.txt", <<"no", "data", "found">>>>}

\* The shapes the task prompt declares
Keys(v) == {v.m[i][1] : i \in 1..Len(v.m)}
Get(v, k) == v.m[CHOOSE i \in 1..Len(v.m) : v.m[i][1] = k][2]
IsText(v) == v.t = "str"
IsPlayerEntry(v) ==
  /\ v.t = "obj"
  /\ Keys(v) = {"name", "line", "odd"}
  /\ \A k \in Keys(v) : IsText(Get(v, k))
IsExpectedRecord(v) ==
  /\ v.t = "obj"
  /\ Keys(v) = {"match", "market", "players"}
  /\ IsText(Get(v, "match"))
  /\ IsText(Get(v, "market"))
  /\ Get(v, "players").t = "arr"
  /\ \A i \in 1..Len(Get(v, "players").e) : IsPlayerEntry(Get(v, "players").e[i])
IsErrorObject(v) ==
  /\ v.t = "obj"
  /\ Keys(v) = {"error"}
  /\ IsText(Get(v, "error"))

\* C18: a structured record is stored and returned only when the agent's text
\* has the expected record shape or is the declared error object; any other
\* text, well-formed JSON included, ends in the text fallback.
C18_OnlyExpectedShapesAreStored ==
  (SinkDone /\ result.str) =>
     IF IsExpectedRecord(runOut.data) \/ IsErrorObject(runOut.data)
     THEN runOut.kind = "value" /\ FileNames = {"extracted_odds.json"}
     ELSE runOut.kind = "fallback" /\ FileNames = {"extracted_odds.txt"}

\* C19: a run wrote at most one artifact; a run that returned through
\* `return data` wrote exactly the structured artifact, a run that returned the
\* fallback wrote exactly the text artifact, and a run that ended in the fatal
\* handler, or never reached the sink, wrote none.
C19_ExactlyOneArtifactPerResult ==
  prog = "miner" =>
     /\ Cardinality(artifacts) <= 1
     /\ runOut.kind = "value" => FileNames = {"extracted_odds.json"}
     /\ runOut.kind = "fallback" => FileNames = {"extracted_odds.txt"}
     /\ runOut.kind \in {"pending", "none", "raised"} => artifacts = {}
     /\ Has("except") => artifacts = {}

C19_Witness ==
  /\ prog = "miner" /\ RunEnded /\ runOut.kind = "fallback"
  /\ FileNames = {"extracted_odds.txt"} /\ Cardinality(artifacts) = 1

\* C20: a finished run returned None exactly when it failed (fatal handler or
\* launch failure), and whenever an artifact was written the value returned is
\* populated and main reports an extraction.
C20_NoneExactlyOnFailure ==
  (prog = "miner" /\ RunEnded /\ mainOut # "returned") =>
     /\ (runOut.data = JNull) <=> (runOut.kind \in {"none", "raised"})
     /\ artifacts # {} => (PyTruthy(runOut.data) /\ mainOut = "summary")

\* C21: a result of the agent that is not a text but already a mapping is
\* returned and stored as it is; only another non-text value is replaced by
\* the record carrying its string form and its type name.
C21_StructuredPassThrough ==
  (SinkDone /\ ~result.str) =>
     IF result.py.t = "obj"
     THEN /\ runOut = [kind |-> "value", data |-> result.py]
          /\ artifacts = {<<"extracted_odds.json", JsonDump(result.py)>>}
     ELSE /\ runOut.kind = "value"
          /\ runOut.data = JObj(<< <<"result", JStr(PyStr(result.py))>>,
                                   <<"type", JStr(<<TypeName(result.py)>>)>> >>)

\* C22: two runs executing concurrently never share a session: the agent of a
\* run is attached only to the browser its own run launched, and no run's
\* close ends the browser another run's agent is working in.
C22_SessionsNeverShared ==
  prog = "conc" =>
     \A r \in Runs :
        /\ conc.att[r] # 0 => conc.att[r] = conc.own[r]
        /\ ~conc.cut[r]

\* C23: initialize_database returns True only if every schema statement ran
\* without error and the schema was committed (both tables and both indexes
\* are then in the file); it returns False whenever the connection or a schema
\* statement failed.
C23_TrueOnlyOnSchemaSuccess ==
  prog = "db" =>
     /\ db.ret = "true" =>
          (~db.schemaFailed /\ db.committed /\ SchemaObjects \subseteq db.present)
     /\ (db.pc = "done" /\ (db.connFailed \/ db.schemaFailed)) => db.ret = "false"

\* The sum of 1/odd over every listed outcome, for positive odds
RECURSIVE TrueImpliedSum(_)
TrueImpliedSum(os) ==
  IF os = <<>> THEN 0 ELSE (ProbUnit \div Head(os)) + TrueImpliedSum(Tail(os))

\* C26: is_arbitrage_opportunity(odds) is true only if the list is not empty,
\* every odd in it is positive and the implied probabilities 1/odd of all the
\* listed outcomes add up to less than 1; an empty list or a list with a
\* non-positive odd is never reported as an opportunity.
C26_ArbitrageOnlyOnValidOdds ==
  (prog = "calc" /\ arb = "true") =>
     /\ odds # <<>>
     /\ \A i \in 1..Len(odds) : odds[i] > 0
     /\ TrueImpliedSum(odds) < ProbUnit

\* The fixed order of the steps of a run, as they are logged in steps
FlowOrder ==
  <<"launch", "init_script", "goto", "cookies", "search", "result_select",
    "tabs", "verify", "close">>
MinerOrder ==
  <<"launch", "init_script", "goto", "dwell", "attach", "agent", "sink", "close">>
Rank(order, e) ==
  IF \E k \in 1..Len(order) : order[k] = e
  THEN CHOOSE k \in 1..Len(order) : order[k] = e
  ELSE 0
InOrder(order) ==
  \A i, j \in 1..Len(steps) :
     (i < j /\ Rank(order, steps[i]) > 0 /\ Rank(order, steps[j]) > 0)
        => Rank(order, steps[i]) < Rank(order, steps[j])
StepStarts == {"ck_start", "ps_start", "nt_start", "vm_start", "f_finally"}

\* C24: the steps of a run start in one fixed order, each at most once, and
\* none starts while a call of the previous one is still running.  Scripted
\* navigator: launch, init script, navigation, cookies, search, result
\* selection, tabs, verification, close, each step after the one it follows.
\* Hybrid miner: init script before navigation, navigation before the dwell,
\* and the agent attached and started only after the dwell.
C24_StepsInFixedOrder ==
  /\ prog = "flow" =>
       /\ InOrder(FlowOrder)
       /\ pc \in StepStarts => (scRet = "none" /\ sfRet = "none")
       /\ Has("init_script") => Has("launch")
       /\ Has("goto") => Has("init_script")
       /\ Has("cookies") => Has("goto")
       /\ Has("search") => Has("cookies")
       /\ Has("result_select") => Has("search")
       /\ Has("tabs") => Has("search")
       /\ Has("verify") => Has("tabs")
       /\ Has("close") => Has("launch")
  /\ prog = "miner" =>
       /\ InOrder(MinerOrder)
       /\ Has("goto") => Has("init_script")
       /\ Has("dwell") => Has("goto")
       /\ Has("attach") => Has("dwell")
       /\ Has("agent") => Has("attach")
       /\ agentStarted => (Has("dwell") /\ Has("attach"))

C24_Witness ==
  /\ prog = "flow" /\ RunEnded
  /\ \A k \in 1..Len(FlowOrder) : Has(FlowOrder[k])

\* C25: the cookie step interacts with at most one candidate per run: once
\* the first visible candidate has been handed to smart_click, no later
\* candidate is looked up or clicked, whatever became of that interaction.
C25_OneCookieCandidate ==
  prog = "flow" =>
     /\ Cardinality({n \in 1..Len(steps) : steps[n] = "cookie_click"}) <= 1
     /\ (resolver = "role" /\ sfOut[1] >= 1) =>
           \A n \in 1..Len(tried) : tried[n][2] <= sfOut[1]

====
